---- MODULE Spec2Model ----
(***************************************************************************)
(* A model of the lmterminal command-line client (sderev/lmterminal):      *)
(* option validation, prompt assembly, the single chat-completion request, *)
(* the streaming renderer and the error classification of one invocation   *)
(* of the `prompt` command.                                                *)
(*                                                                         *)
(* Texts are sequences of one-character strings, so that lower-casing,     *)
(* concatenation and endswith are computed as the code computes them.      *)
(* Temperatures are counted in tenths (1.0 is 10, 2.0 is 20).              *)
(***************************************************************************)
EXTENDS Integers, Sequences, FiniteSets, TLC

VARIABLES
    argv,            \* the arguments as given: --model and --temperature as
                     \* typed or, for a function taken alone, its arguments
    pc,              \* position of the invocation in the code
    cbDone,          \* the click option callbacks that have run
    model,           \* --model value, then the model handed on
    temperature,     \* --temperature value, in tenths
    template,        \* --template value (None when absent)
    system,          \* --system value (None when absent), then system text
    stdout_tty,      \* sys.stdout.isatty()
    tokens,          \* --tokens flag
    prompt_input,    \* the user content
    raw,             \* the display policy handed to generate_response
    stream,          \* not no_stream
    template_content, \* the mapping get_template_content loaded
    prompt,          \* format_prompt(system, prompt_input)
    io,              \* the I/O performed so far, in order
    out,             \* what was written to the terminal, in order
    calls,           \* the chat-completion calls issued
    pending,         \* the exception in flight, if any
    collected_messages, \* chatgpt_request: the deltas received
    markdown_stream, \* generate_response: the renderer's accumulator
    result,          \* what generate_response, or the function taken alone,
                     \* returned
    exit_code,       \* the process's exit code (Running until it ends)
    api_key,         \* openai.api_key (None until generate_response sets it)
    files            \* the files of the templates directory, by name

vars == <<argv, pc, cbDone, model, temperature, template, system, stdout_tty, tokens,
          prompt_input, raw, stream, template_content, prompt, io, out, calls,
          pending,
          collected_messages, markdown_stream, result, exit_code, api_key,
          files>>

----------------------------------------------------------------------------
(* Bounds of the model *)

\* how far outside [0, 2] the temperatures of SpecCli go, in tenths
TempMargin == 3
\* the longest stream of fragments the remote API delivers
MaxFrags == 3

\* the longest system text given to add_emoji, the literal one apart
MaxText == 3

\* the largest number of tokens given to estimated_cost
MaxTokens == 50

\* the largest number of tokens of a text given to the token functions
MaxEncoded == 1

----------------------------------------------------------------------------
(* Values *)

Running == "running"
NoResult == <<"no result">>

NL == "\n"

UpperCase == <<"A","B","C","D","E","F","G","H","I","J","K","L","M",
               "N","O","P","Q","R","S","T","U","V","W","X","Y","Z">>
LowerCase == <<"a","b","c","d","e","f","g","h","i","j","k","l","m",
               "n","o","p","q","r","s","t","u","v","w","x","y","z">>

\* str.lower(), character by character
lower(s) ==
    [i \in DOMAIN s |->
        IF \E k \in DOMAIN UpperCase : UpperCase[k] = s[i]
        THEN LowerCase[CHOOSE k \in DOMAIN UpperCase : UpperCase[k] = s[i]]
        ELSE s[i]]

\* str.upper(), used to build differently-cased inputs
upper(s) ==
    [i \in DOMAIN s |->
        IF \E k \in DOMAIN LowerCase : LowerCase[k] = s[i]
        THEN UpperCase[CHOOSE k \in DOMAIN LowerCase : LowerCase[k] = s[i]]
        ELSE s[i]]

\* str.endswith("\n")
endswith_newline(s) == Len(s) > 0 /\ s[Len(s)] = NL

Range(f) == {f[i] : i \in DOMAIN f}

DEFAULT_MODEL == <<"g","p","t","-","4","o","-","m","i","n","i">>

\* a catalog in which two models list the alias "4"
VALID_MODELS_shared_alias ==
  <<
    [model |-> <<"g","p","t","-","4">>,
     hasAliases |-> TRUE,
     aliases |-> <<<<"4">>, <<"g","p","t","4">>>>],
    [model |-> <<"g","p","t","-","4","o">>,
     hasAliases |-> TRUE,
     aliases |-> <<<<"4","o">>, <<"4">>>>]
  >>

VALID_MODELS ==
  <<
    [model |-> <<"g","p","t","-","3",".","5","-","t","u","r","b","o">>,
     hasAliases |-> TRUE,
     aliases |-> <<<<"c","h","a","t","g","p","t">>, <<"3",".","5">>>>],
    [model |-> <<"g","p","t","-","3",".","5","-","t","u","r","b","o","-","i","n","s","t","r","u","c","t">>,
     hasAliases |-> FALSE,
     aliases |-> <<>>],
    [model |-> <<"g","p","t","-","4">>,
     hasAliases |-> TRUE,
     aliases |-> <<<<"4">>, <<"g","p","t","4">>>>],
    [model |-> <<"g","p","t","-","4","-","t","u","r","b","o">>,
     hasAliases |-> TRUE,
     aliases |-> <<<<"4","t">>, <<"4","-","t","u","r","b","o">>, <<"g","p","t","4","-","t","u","r","b","o">>>>],
    [model |-> <<"g","p","t","-","4","-","3","2","k">>,
     hasAliases |-> TRUE,
     aliases |-> <<<<"4","-","3","2","k">>, <<"g","p","t","4","-","3","2","k">>>>],
    [model |-> <<"g","p","t","-","4","o">>,
     hasAliases |-> TRUE,
     aliases |-> <<<<"4","o">>>>],
    [model |-> <<"g","p","t","-","4","o","-","2","0","2","4","-","0","5","-","1","3">>,
     hasAliases |-> FALSE,
     aliases |-> <<>>],
    [model |-> <<"g","p","t","-","4","o","-","m","i","n","i">>,
     hasAliases |-> TRUE,
     aliases |-> <<<<"4","o","-","m","i","n","i">>, <<"4","o","m","i","n","i">>, <<"4","o","m">>>>],
    [model |-> <<"g","p","t","-","4","o","-","m","i","n","i","-","2","0","2","4","-","0","7","-","1","8">>,
     hasAliases |-> FALSE,
     aliases |-> <<>>]
  >>
TestAliasTable ==
  <<
    <<<<"g","p","t","-","3",".","5","-","t","u","r","b","o">>,
      <<"g","p","t","-","3",".","5","-","t","u","r","b","o">>>>,
    <<<<"c","h","a","t","g","p","t">>,
      <<"g","p","t","-","3",".","5","-","t","u","r","b","o">>>>,
    <<<<"3",".","5">>,
      <<"g","p","t","-","3",".","5","-","t","u","r","b","o">>>>,
    <<<<"g","p","t","-","3",".","5","-","t","u","r","b","o","-","i","n","s","t","r","u","c","t">>,
      <<"g","p","t","-","3",".","5","-","t","u","r","b","o","-","i","n","s","t","r","u","c","t">>>>,
    <<<<"g","p","t","-","4">>,
      <<"g","p","t","-","4">>>>,
    <<<<"4">>,
      <<"g","p","t","-","4">>>>,
    <<<<"g","p","t","4">>,
      <<"g","p","t","-","4">>>>,
    <<<<"g","p","t","-","4","-","t","u","r","b","o">>,
      <<"g","p","t","-","4","-","t","u","r","b","o">>>>,
    <<<<"4","t">>,
      <<"g","p","t","-","4","-","t","u","r","b","o">>>>,
    <<<<"4","-","t","u","r","b","o">>,
      <<"g","p","t","-","4","-","t","u","r","b","o">>>>,
    <<<<"g","p","t","4","-","t","u","r","b","o">>,
      <<"g","p","t","-","4","-","t","u","r","b","o">>>>,
    <<<<"g","p","t","-","4","-","3","2","k">>,
      <<"g","p","t","-","4","-","3","2","k">>>>,
    <<<<"4","-","3","2","k">>,
      <<"g","p","t","-","4","-","3","2","k">>>>,
    <<<<"g","p","t","4","-","3","2","k">>,
      <<"g","p","t","-","4","-","3","2","k">>>>,
    <<<<"g","p","t","-","4","o">>,
      <<"g","p","t","-","4","o">>>>,
    <<<<"4","o">>,
      <<"g","p","t","-","4","o">>>>,
    <<<<"g","p","t","-","4","o","-","2","0","2","4","-","0","5","-","1","3">>,
      <<"g","p","t","-","4","o","-","2","0","2","4","-","0","5","-","1","3">>>>,
    <<<<"g","p","t","-","4","o","-","2","0","2","4","-","0","8","-","0","6">>,
      <<"g","p","t","-","4","o","-","2","0","2","4","-","0","8","-","0","6">>>>,
    <<<<"g","p","t","-","4","o","-","2","0","2","4","-","1","1","-","2","0">>,
      <<"g","p","t","-","4","o","-","2","0","2","4","-","1","1","-","2","0">>>>,
    <<<<"g","p","t","-","4","o","-","m","i","n","i">>,
      <<"g","p","t","-","4","o","-","m","i","n","i">>>>,
    <<<<"4","o","-","m","i","n","i">>,
      <<"g","p","t","-","4","o","-","m","i","n","i">>>>,
    <<<<"4","o","m","i","n","i">>,
      <<"g","p","t","-","4","o","-","m","i","n","i">>>>,
    <<<<"4","o","m">>,
      <<"g","p","t","-","4","o","-","m","i","n","i">>>>,
    <<<<"g","p","t","-","4","o","-","m","i","n","i","-","2","0","2","4","-","0","7","-","1","8">>,
      <<"g","p","t","-","4","o","-","m","i","n","i","-","2","0","2","4","-","0","7","-","1","8">>>>,
    <<<<"c","h","a","t","g","p","t","-","4","o","-","l","a","t","e","s","t">>,
      <<"c","h","a","t","g","p","t","-","4","o","-","l","a","t","e","s","t">>>>,
    <<<<"o","1">>,
      <<"o","1">>>>,
    <<<<"o","1","-","2","0","2","4","-","1","2","-","1","7">>,
      <<"o","1","-","2","0","2","4","-","1","2","-","1","7">>>>,
    <<<<"o","1","-","p","r","e","v","i","e","w">>,
      <<"o","1","-","p","r","e","v","i","e","w">>>>,
    <<<<"o","1","-","p","r","e","v","i","e","w","-","2","0","2","4","-","0","9","-","1","2">>,
      <<"o","1","-","p","r","e","v","i","e","w","-","2","0","2","4","-","0","9","-","1","2">>>>,
    <<<<"o","1","-","m","i","n","i">>,
      <<"o","1","-","m","i","n","i">>>>,
    <<<<"o","1","-","m","i","n","i","-","2","0","2","4","-","0","9","-","1","2">>,
      <<"o","1","-","m","i","n","i","-","2","0","2","4","-","0","9","-","1","2">>>>,
    <<<<"o","1","-","p","r","o">>,
      <<"o","1","-","p","r","o">>>>,
    <<<<"o","1","-","p","r","o","-","2","0","2","5","-","0","3","-","1","9">>,
      <<"o","1","-","p","r","o","-","2","0","2","5","-","0","3","-","1","9">>>>,
    <<<<"g","p","t","-","4",".","1">>,
      <<"g","p","t","-","4",".","1">>>>,
    <<<<"4",".","1">>,
      <<"g","p","t","-","4",".","1">>>>,
    <<<<"g","p","t","-","4",".","1","-","2","0","2","5","-","0","4","-","1","4">>,
      <<"g","p","t","-","4",".","1","-","2","0","2","5","-","0","4","-","1","4">>>>,
    <<<<"g","p","t","-","4",".","1","-","m","i","n","i">>,
      <<"g","p","t","-","4",".","1","-","m","i","n","i">>>>,
    <<<<"g","p","t","-","4",".","1","-","m","i","n","i","-","2","0","2","5","-","0","4","-","1","4">>,
      <<"g","p","t","-","4",".","1","-","m","i","n","i","-","2","0","2","5","-","0","4","-","1","4">>>>,
    <<<<"g","p","t","-","4",".","1","-","n","a","n","o">>,
      <<"g","p","t","-","4",".","1","-","n","a","n","o">>>>,
    <<<<"4",".","1","-","n","a","n","o">>,
      <<"g","p","t","-","4",".","1","-","n","a","n","o">>>>,
    <<<<"g","p","t","-","4",".","1","-","n","a","n","o","-","2","0","2","5","-","0","4","-","1","4">>,
      <<"g","p","t","-","4",".","1","-","n","a","n","o","-","2","0","2","5","-","0","4","-","1","4">>>>,
    <<<<"g","p","t","-","4",".","5","-","p","r","e","v","i","e","w">>,
      <<"g","p","t","-","4",".","5","-","p","r","e","v","i","e","w">>>>,
    <<<<"o","3">>,
      <<"o","3">>>>,
    <<<<"o","3","-","2","0","2","5","-","0","4","-","1","6">>,
      <<"o","3","-","2","0","2","5","-","0","4","-","1","6">>>>,
    <<<<"o","3","-","m","i","n","i">>,
      <<"o","3","-","m","i","n","i">>>>,
    <<<<"o","3","-","m","i","n","i","-","2","0","2","5","-","0","1","-","3","1">>,
      <<"o","3","-","m","i","n","i","-","2","0","2","5","-","0","1","-","3","1">>>>,
    <<<<"o","4","-","m","i","n","i">>,
      <<"o","4","-","m","i","n","i">>>>,
    <<<<"o","4","-","m","i","n","i","-","2","0","2","5","-","0","4","-","1","6">>,
      <<"o","4","-","m","i","n","i","-","2","0","2","5","-","0","4","-","1","6">>>>,
    <<<<"c","o","d","e","x","-","m","i","n","i","-","l","a","t","e","s","t">>,
      <<"c","o","d","e","x","-","m","i","n","i","-","l","a","t","e","s","t">>>>,
    <<<<"g","p","t","-","4","o","-","s","e","a","r","c","h","-","p","r","e","v","i","e","w">>,
      <<"g","p","t","-","4","o","-","s","e","a","r","c","h","-","p","r","e","v","i","e","w">>>>,
    <<<<"g","p","t","-","4","o","-","s","e","a","r","c","h","-","p","r","e","v","i","e","w","-","2","0","2","5","-","0","3","-","1","1">>,
      <<"g","p","t","-","4","o","-","s","e","a","r","c","h","-","p","r","e","v","i","e","w","-","2","0","2","5","-","0","3","-","1","1">>>>,
    <<<<"g","p","t","-","4","o","-","m","i","n","i","-","s","e","a","r","c","h","-","p","r","e","v","i","e","w">>,
      <<"g","p","t","-","4","o","-","m","i","n","i","-","s","e","a","r","c","h","-","p","r","e","v","i","e","w">>>>,
    <<<<"g","p","t","-","4","o","-","m","i","n","i","-","s","e","a","r","c","h","-","p","r","e","v","i","e","w","-","2","0","2","5","-","0","3","-","1","1">>,
      <<"g","p","t","-","4","o","-","m","i","n","i","-","s","e","a","r","c","h","-","p","r","e","v","i","e","w","-","2","0","2","5","-","0","3","-","1","1">>>>
  >>

\* the canonical identifiers: the keys of VALID_MODELS
CanonicalModels == {VALID_MODELS[i].model : i \in DOMAIN VALID_MODELS}

\* click.BadParameter raised by a callback
BadParameter == [ok |-> FALSE, value |-> <<>>]
Returned(v) == [ok |-> TRUE, value |-> v]

\* validate_model_name with the alias branch returning what was typed
validate_model_name_typed(value) ==
    LET model_name == lower(value)
        hit(i) == \/ model_name = VALID_MODELS[i].model
                  \/ /\ VALID_MODELS[i].hasAliases
                     /\ model_name \in Range(VALID_MODELS[i].aliases)
        hits == {i \in DOMAIN VALID_MODELS : hit(i)}
    IN  IF hits = {} THEN BadParameter ELSE Returned(model_name)

\* validate_model_name(ctx, param, value): the first entry of the table, in
\* its order, whose key or one of whose aliases is the lower-cased value
validate_model_name(value) ==
    LET model_name == lower(value)
        hit(i) == \/ model_name = VALID_MODELS[i].model
                  \/ /\ VALID_MODELS[i].hasAliases
                     /\ model_name \in Range(VALID_MODELS[i].aliases)
        hits == {i \in DOMAIN VALID_MODELS : hit(i)}
        first == CHOOSE i \in hits : \A j \in hits : i <= j
    IN  IF hits = {} THEN BadParameter ELSE Returned(VALID_MODELS[first].model)

\* validate_temperature with the upper bound excluded
validate_temperature_open(value) ==
    IF 0 <= value /\ value < 20 THEN Returned(value) ELSE BadParameter

\* validate_temperature(ctx, param, value): 0 <= value <= 2, in tenths
validate_temperature(value) ==
    IF 0 <= value /\ value <= 20 THEN Returned(value) ELSE BadParameter


----------------------------------------------------------------------------
(* Texts *)

None == <<"None">>
Missing == <<"Missing">>

Whitespace == {" ", NL, "\t"}

RECURSIVE rstrip(_)
\* str.rstrip()
rstrip(s) ==
    IF Len(s) > 0 /\ s[Len(s)] \in Whitespace
    THEN rstrip(SubSeq(s, 1, Len(s) - 1))
    ELSE s

RECURSIVE lstrip(_)
\* str.lstrip()
lstrip(s) ==
    IF Len(s) > 0 /\ s[1] \in Whitespace
    THEN lstrip(SubSeq(s, 2, Len(s)))
    ELSE s

\* str.strip()
strip(s) == lstrip(rstrip(s))

RECURSIVE join(_, _)
\* sep.join(parts)
join(sep, parts) ==
    IF Len(parts) = 0 THEN <<>>
    ELSE IF Len(parts) = 1 THEN parts[1]
    ELSE parts[1] \o sep \o join(sep, Tail(parts))

\* Python truthiness of an optional text
Truthy(x) == x # None /\ x # <<>>

\* x or d
OrElse(x, d) == IF Truthy(x) THEN x ELSE d

\* dict.get(key, default)
get(d, key, default) == IF d[key] = Missing THEN default ELSE d[key]

\* "\n___\n", the separator between piped content and the positional prompt
SEPARATOR == <<NL, "_", "_", "_", NL>>


----------------------------------------------------------------------------
(* Prompt assembly *)

\* update_content with a space between the template's text and the content
update_content_spaced(loaded, key, content) ==
    LET existing_value == get(loaded, key, <<>>)
    IN  rstrip(IF existing_value = None THEN <<>> ELSE existing_value)
            \o <<" ">> \o OrElse(content, <<>>)

\* prepare_prompt_from_template: update_content(key, content)
update_content(loaded, key, content) ==
    LET existing_value == get(loaded, key, <<>>)
    IN  rstrip(IF existing_value = None THEN <<>> ELSE existing_value)
            \o OrElse(content, <<>>)

\* prepare_prompt_from_template: the model it returns
updated_model(loaded, m) ==
    IF m # DEFAULT_MODEL
    THEN m
    ELSE OrElse(get(loaded, "model", m), DEFAULT_MODEL)

\* prepare_prompt_from_template(template, system, user_prompt, model), on the
\* content that get_template_content loaded
prepare_prompt_from_template(loaded, sys, user_prompt, m) ==
    [system |-> update_content(loaded, "system", sys),
     user   |-> update_content(loaded, "user", user_prompt),
     model  |-> updated_model(loaded, m)]

\* dict.setdefault(key, ""), then the None of the key replaced by ""
setdefault(loaded, key) ==
    IF loaded[key] \in {Missing, None}
    THEN [loaded EXCEPT ![key] = <<>>]
    ELSE loaded

\* the mapping after a merge that writes the defaults into it
template_after_setdefault(loaded) ==
    setdefault(setdefault(loaded, "system"), "user")

\* prepare_prompt_from_template: the mapping after the call; update_content
\* and the model are read with get(), nothing is written
template_after_prepare(loaded) == loaded

\* update_from_template that stores the composed value in the mapping
update_from_template_storing(loaded, key, content) ==
    LET written == setdefault(loaded, key)
        value == rstrip(written[key]) \o OrElse(content, <<>>)
    IN  [value |-> value, template |-> [written EXCEPT ![key] = value]]

\* lmt_cli: update_from_template(template_content, key, prompt): the value it
\* returns and the mapping it leaves
update_from_template(loaded, key, content) ==
    LET written == setdefault(loaded, key)
    IN  [value |-> rstrip(written[key]) \o OrElse(content, <<>>),
         template |-> written]

\* lmt_cli: handle_template(template, system, prompt_input, model), on the
\* mapping that get_template_content loaded
handle_template(loaded, sys, user_prompt, m) ==
    LET first == update_from_template(loaded, "system", sys)
        second == update_from_template(first.template, "user", user_prompt)
    IN  [system |-> first.value,
         user   |-> second.value,
         model  |-> OrElse(get(second.template, "model", m), m),
         template |-> second.template]

\* the model resolution with the template's model never taken
resolve_model_flag_only(m, template_model) == m

\* prepare_and_generate_response: a model given in the options bypasses the
\* model of the template
resolve_model(m, template_model) ==
    IF m = DEFAULT_MODEL THEN template_model ELSE m

\* the instruction add_emoji appends (shortened; it ends with a period)
emoji_message == <<"A","d","d"," ","e","m","o","j","i","s",".">>

\* add_emoji without the right trim of the system text
add_emoji_untrimmed(sys) ==
    IF sys = <<>> THEN emoji_message
    ELSE (IF sys[Len(sys)] # "." THEN sys \o <<".">> ELSE sys)
         \o <<" ">> \o emoji_message

\* add_emoji(system)
add_emoji(sys) ==
    LET s == rstrip(sys)
    IN  IF s = <<>> THEN emoji_message
        ELSE (IF s[Len(s)] # "." THEN s \o <<".">> ELSE s)
             \o <<" ">> \o emoji_message

\* lmt (the earlier command): the instruction with its period and space
EMOJI == <<".", " ">> \o emoji_message

\* lmt (the earlier command): system += EMOJI
append_EMOJI(sys) == sys \o EMOJI

\* format_prompt(system_content, user_content)
format_prompt(system_content, user_content) ==
    << [role |-> "system", content |-> system_content],
       [role |-> "user", content |-> user_content] >>

\* estimate_prompt_cost: prices in USD per 1M tokens, in hundredths
prices ==
  <<
    [model |-> <<"g","p","t","-","3",".","5","-","t","u","r","b","o">>,
     price |-> 50],
    [model |-> <<"g","p","t","-","3",".","5","-","t","u","r","b","o","-","0","1","2","5">>,
     price |-> 50],
    [model |-> <<"g","p","t","-","3",".","5","-","t","u","r","b","o","-","1","1","0","6">>,
     price |-> 50],
    [model |-> <<"g","p","t","-","3",".","5","-","t","u","r","b","o","-","i","n","s","t","r","u","c","t">>,
     price |-> 150],
    [model |-> <<"g","p","t","-","4">>,
     price |-> 3000],
    [model |-> <<"g","p","t","-","4","-","t","u","r","b","o","-","p","r","e","v","i","e","w">>,
     price |-> 1000],
    [model |-> <<"g","p","t","-","4","-","t","u","r","b","o">>,
     price |-> 1000],
    [model |-> <<"g","p","t","-","4","-","t","u","r","b","o","-","2","0","2","4","-","0","4","-","0","9">>,
     price |-> 1],
    [model |-> <<"g","p","t","-","4","-","0","6","1","3">>,
     price |-> 3],
    [model |-> <<"g","p","t","-","4","-","1","1","0","6","-","p","r","e","v","i","e","w">>,
     price |-> 1000],
    [model |-> <<"g","p","t","-","4","-","0","1","2","5","-","p","r","e","v","i","e","w">>,
     price |-> 1000],
    [model |-> <<"g","p","t","-","4","-","3","2","k">>,
     price |-> 6000],
    [model |-> <<"g","p","t","-","4","-","3","2","k","-","0","6","1","3">>,
     price |-> 6000],
    [model |-> <<"g","p","t","-","4","o">>,
     price |-> 500],
    [model |-> <<"g","p","t","-","4","o","-","2","0","2","4","-","0","5","-","1","3">>,
     price |-> 500],
    [model |-> <<"g","p","t","-","4","o","-","m","i","n","i">>,
     price |-> 15],
    [model |-> <<"g","p","t","-","4","o","-","m","i","n","i","-","2","0","2","4","-","0","7","-","1","8">>,
     price |-> 15]
  >>

\* the price table without its two last entries
PricedModelsBeforeMini == {prices[i].model : i \in 1 .. (Len(prices) - 2)}

PricedModels == {prices[i].model : i \in DOMAIN prices}

\* model identifiers given to the token functions: the catalog, the price
\* table, a dated model without a price, and names that are no model
gpt_4_0314 == <<"g","p","t","-","4","-","0","3","1","4">>
TokenModels ==
    CanonicalModels \cup PricedModels \cup
    {gpt_4_0314, <<"f","o","o">>, <<"o","1">>, <<"4","o">>}

startswith(s, prefix) ==
    Len(s) >= Len(prefix) /\ SubSeq(s, 1, Len(prefix)) = prefix

\* tiktoken.encoding_for_model: the names and the prefixes of names it has
\* an encoding for, among those of the catalog and of the price table
EncodingNames == {<<"g","p","t","-","4","o">>, <<"g","p","t","-","4">>, <<"g","p","t","-","3",".","5","-","t","u","r","b","o">>}
EncodingPrefixes == {<<"g","p","t","-","4","o","-">>, <<"g","p","t","-","4","-">>, <<"g","p","t","-","3",".","5","-","t","u","r","b","o","-">>}

\* the models whose encoding tiktoken.encoding_for_model knows
TiktokenModels ==
    {m \in TokenModels :
        \/ m \in EncodingNames
        \/ \E prefix \in EncodingPrefixes : startswith(m, prefix)}

\* the KeyError of a lookup
KeyError(key) == [ok |-> FALSE, error |-> "KeyError", key |-> key]

\* num_tokens_from_string(string, model): encoded is the number of tokens
\* the encoding gives for the string
num_tokens_from_string(encoded, m) ==
    IF m \in TiktokenModels
    THEN [ok |-> TRUE, warning |-> FALSE, value |-> encoded]
    ELSE KeyError(m)

tokens_per_message == 3

\* the number of tokens of a role ("system", "user")
RoleTokens == 1

\* num_tokens_from_messages(messages, model), for the two messages of
\* format_prompt; an unknown model gives a warning and cl100k_base
num_tokens_from_messages(encoded, m) ==
    [ok |-> TRUE,
     warning |-> m \notin TiktokenModels,
     value |-> (tokens_per_message + RoleTokens + encoded.system)
               + (tokens_per_message + RoleTokens + encoded.user) + 3]

\* prices[model]
price_of(m) ==
    prices[CHOOSE i \in DOMAIN prices : prices[i].model = m].price

\* estimated_cost that drops the digits after the sixth
estimated_cost_truncated(num_tokens, price_per_1M_tokens) ==
    {(num_tokens * price_per_1M_tokens) \div 100}

\* estimated_cost(num_tokens, price_per_1M_tokens): the values that
\* f"{num_tokens / 10**6 * price_per_1M_tokens:.6f}" can be, in millionths
\* of a dollar, the price being in hundredths.  The product is a binary
\* floating-point number next to the real value, and the format rounds it
\* to the nearest millionth; when the real value is half-way between two
\* millionths the floating-point one falls on either side
estimated_cost(num_tokens, price_per_1M_tokens) ==
    LET exact == num_tokens * price_per_1M_tokens
        below == exact \div 100
        rest == exact % 100
    IN  IF rest < 50 THEN {below}
        ELSE IF rest > 50 THEN {below + 1}
        ELSE {below, below + 1}

\* estimate_prompt_cost with a price of zero for a model without a price
estimate_prompt_cost_default_price(encoded, m) ==
    LET counted == num_tokens_from_messages(encoded, m)
    IN  [ok |-> TRUE, warning |-> counted.warning,
         value |-> estimated_cost(counted.value,
                                  IF m \in PricedModels THEN price_of(m)
                                  ELSE 0)]

\* estimate_prompt_cost(message, model)
estimate_prompt_cost(encoded, m) ==
    LET counted == num_tokens_from_messages(encoded, m)
    IN  IF m \in PricedModels
        THEN [ok |-> TRUE, warning |-> counted.warning,
              value |-> estimated_cost(counted.value, price_of(m))]
        ELSE [ok |-> FALSE, warning |-> counted.warning,
              error |-> "KeyError", key |-> m]

\* display_tokens_count_and_cost(prompt, model): what it prints, or the
\* KeyError that ends it
display_tokens_count_and_cost(encoded, m) ==
    LET number_of_tokens == num_tokens_from_string(encoded.full, m)
        cost == estimate_prompt_cost(encoded, m)
    IN  IF ~number_of_tokens.ok THEN number_of_tokens
        ELSE IF ~cost.ok THEN cost
        ELSE [ok |-> TRUE, warning |-> cost.warning,
              number_of_tokens |-> number_of_tokens.value,
              cost |-> cost.value]

----------------------------------------------------------------------------
(* Inputs *)

gpt_4o == <<"g","p","t","-","4","o">>

\* --model values of the pipeline: the default, an alias of another model
\* and an identifier of the test table that the catalog does not hold
MainModels == {DEFAULT_MODEL, <<"4">>, <<"o","1">>}
MainTemperatures == {20, 21}
TemplateNames == {None, <<"t">>}
SystemValues == {None, <<"S">>}
PositionalValues == {<<>>, << <<"p">> >>}
StdinContents == {<<"i", NL>>}
KeyFileContents == {<<>>, <<" ", NL>>, <<"k", NL>>}

\* what the template store holds under a name
NotFound == [error |-> "FileNotFoundError"]
NotLoaded == [error |-> "not loaded"]

\* the templates directory when the command does not touch it
NoFiles == <<>>

TemplateModels == {Missing, None, <<>>, gpt_4o, <<"f","o","o">>}
TemplateContents ==
    [system : {<<"T", " ">>}, user : {<<"U">>}, model : TemplateModels]
    \cup [system : {Missing, None}, user : {Missing, None}, model : {Missing}]

\* the delta of a chunk: no content field, a null content, or a text
Deltas == [content : {Missing, None, <<"a">>, <<NL>>}]

\* the message content of a one-shot response
MessageContents == {None, <<"a">>, <<"a", NL>>}

\* what the encoding gives for the texts of a prompt: the numbers of tokens
\* of the system content, of the user content and of the two put together
Encodings == [system : 0 .. MaxEncoded, user : 0 .. MaxEncoded,
              full : 0 .. MaxEncoded]

NoError == [kind |-> "none", message |-> <<>>]
\* a usage error of click, raised for the named option
UsageError(kind, option) == [kind |-> kind, message |-> <<option>>]
ErrorKinds == {"RateLimitError", "AuthenticationError", "Exception"}
Errors == [kind : ErrorKinds, message : {<<"e","r","r">>}]

\* test inputs of the option callbacks: every name of the catalog and of
\* the test table, as written and in upper case, and unknown names
CatalogNames ==
    CanonicalModels \cup
    UNION {Range(VALID_MODELS[i].aliases) : i \in DOMAIN VALID_MODELS}
TestTableNames == {TestAliasTable[i][1] : i \in DOMAIN TestAliasTable}
UnknownNames == {<<"i","n","v","a","l","i","d","-","m","o","d","e","l">>,
                 <<>>, <<"g","p","t">>, <<"g","p","t","-","4"," ">>}
CliModels ==
    LET names == CatalogNames \cup TestTableNames \cup UnknownNames
    IN  names \cup {upper(n) : n \in names}
CliTemperatures == (0 - TempMargin) .. (20 + TempMargin)


----------------------------------------------------------------------------
(* Output *)

Event(ch, what, text) == [ch |-> ch, what |-> what, text |-> text]

\* the process ends with the given code
Exit(code) == /\ pc' = "exit"
              /\ exit_code' = code

----------------------------------------------------------------------------
(* The state after the command line is split into options *)

InitFrame ==
    /\ pc = "parse"
    /\ cbDone = {}
    /\ model = argv.model
    /\ temperature = argv.temperature
    /\ prompt_input = <<>>
    /\ raw = FALSE
    /\ stream = TRUE
    /\ template_content = NotLoaded
    /\ prompt = <<>>
    /\ io = <<>>
    /\ out = <<>>
    /\ calls = <<>>
    /\ pending = NoError
    /\ collected_messages = <<>>
    /\ markdown_stream = <<>>
    /\ result = NoResult
    /\ exit_code = Running
    /\ api_key = None
    /\ files = NoFiles

Init ==
    /\ argv \in [model : MainModels, temperature : MainTemperatures]
    /\ template \in TemplateNames
    /\ system \in SystemValues
    /\ stdout_tty \in BOOLEAN
    /\ tokens \in BOOLEAN
    /\ InitFrame

\* the option callbacks alone, over every name and temperature
InitCli ==
    /\ argv \in [model : CliModels, temperature : CliTemperatures]
    /\ template = None
    /\ system = None
    /\ stdout_tty = TRUE
    /\ tokens = FALSE
    /\ InitFrame

----------------------------------------------------------------------------
(* click runs the callbacks of the options, then the command *)

\* --model, callback=validate_model_name
CbModel ==
    /\ pc = "parse"
    /\ "model" \notin cbDone
    /\ LET r == validate_model_name(model)
       IN  IF r.ok
           THEN /\ model' = r.value
                /\ cbDone' = cbDone \cup {"model"}
                /\ pc' = IF cbDone' = {"model", "temperature"}
                         THEN "prompt" ELSE "parse"
                /\ UNCHANGED <<exit_code, out, pending>>
           ELSE /\ Exit(2)
                /\ pending' = UsageError("BadParameter", "model")
                /\ out' = Append(out, Event("stderr", "usage", <<>>))
                /\ UNCHANGED <<model, cbDone>>
    /\ UNCHANGED <<files, api_key, template_content, argv, temperature, template, system, stdout_tty, tokens,
                   prompt_input, raw, stream, prompt, io, calls,
                   collected_messages, markdown_stream, result>>

\* --temperature, callback=validate_temperature
CbTemperature ==
    /\ pc = "parse"
    /\ "temperature" \notin cbDone
    /\ LET r == validate_temperature(temperature)
       IN  IF r.ok
           THEN /\ temperature' = r.value
                /\ cbDone' = cbDone \cup {"temperature"}
                /\ pc' = IF cbDone' = {"model", "temperature"}
                         THEN "prompt" ELSE "parse"
                /\ UNCHANGED <<exit_code, out, pending>>
           ELSE /\ Exit(2)
                /\ pending' = UsageError("BadParameter", "temperature")
                /\ out' = Append(out, Event("stderr", "usage", <<>>))
                /\ UNCHANGED <<temperature, cbDone>>
    /\ UNCHANGED <<files, api_key, template_content, argv, model, template, system, stdout_tty, tokens,
                   prompt_input, raw, stream, prompt, io, calls,
                   collected_messages, markdown_stream, result>>

NextCli == CbModel \/ CbTemperature

SpecCli == InitCli /\ [][NextCli]_vars


----------------------------------------------------------------------------
(* prompt(): the body of the command *)

\* the user content with the positional text before the piped content
read_prompt_input_positional_first(positional, stdin_tty, stdin) ==
    LET typed == strip(join(<<" ">>, positional))
    IN  IF ~stdin_tty /\ typed # <<>>
        THEN [prompt_input |-> typed \o SEPARATOR \o strip(stdin),
              reads |-> 1, prompted |-> FALSE]
        ELSE IF typed = <<>>
        THEN [prompt_input |-> strip(stdin), reads |-> 1,
              prompted |-> stdin_tty]
        ELSE [prompt_input |-> typed, reads |-> 0, prompted |-> FALSE]

\* prompt(), the part that settles the user content: the content, the
\* number of sys.stdin.read() calls, and whether the instructions are shown
read_prompt_input(positional, stdin_tty, stdin) ==
    LET typed == strip(join(<<" ">>, positional))
    IN  IF ~stdin_tty /\ typed # <<>>
        THEN [prompt_input |-> strip(stdin) \o SEPARATOR \o typed,
              reads |-> 1, prompted |-> FALSE]
        ELSE IF typed = <<>>
        THEN [prompt_input |-> strip(stdin), reads |-> 1,
              prompted |-> stdin_tty]
        ELSE [prompt_input |-> typed, reads |-> 0, prompted |-> FALSE]

\* prompt(), the part that settles the user content
ReadPrompt ==
    /\ pc = "prompt"
    /\ \E positional \in PositionalValues, stdin_tty \in BOOLEAN,
          stdin \in StdinContents :
        LET r == read_prompt_input(positional, stdin_tty, stdin)
            instructions ==
                IF stdout_tty
                THEN <<Event("stdout", "instructions", <<>>)>>
                ELSE <<Event("tty", "instructions", <<>>)>>
        IN  /\ prompt_input' = r.prompt_input
            /\ io' = IF r.reads = 1 THEN Append(io, "stdin_read") ELSE io
            /\ out' = IF r.prompted THEN out \o instructions ELSE out
    /\ pc' = "conflict"
    /\ UNCHANGED <<files, api_key, template_content, argv, cbDone, model,
                   temperature, template, system, stdout_tty, tokens, raw,
                   stream, prompt, calls, pending, collected_messages,
                   markdown_stream, result, exit_code>>

\* prompt(): --template and --system together are a usage error
CheckConflict ==
    /\ pc = "conflict"
    /\ IF Truthy(system) /\ Truthy(template)
       THEN /\ Exit(2)
            /\ pending' = UsageError("BadOptionUsage", "template")
            /\ out' = Append(out, Event("stderr", "usage", <<>>))
       ELSE /\ pc' = "policy"
            /\ UNCHANGED <<exit_code, out, pending>>
    /\ UNCHANGED <<files, api_key, template_content, argv, cbDone, model, temperature, template, system,
                   stdout_tty, tokens, prompt_input, raw, stream, prompt, io,
                   calls, collected_messages, markdown_stream,
                   result>>

\* the policy in which --raw is stronger than --rich
display_policy_raw_wins(raw_flag, rich, tty) ==
    IF raw_flag THEN TRUE ELSE (IF rich THEN FALSE ELSE ~tty)

\* prompt(): raw when --raw or when stdout is not a terminal, unless --rich
display_policy(raw_flag, rich, tty) ==
    IF rich THEN FALSE ELSE (raw_flag \/ ~tty)

\* prompt(): the display policy and the blank line before the response
DisplayPolicy ==
    /\ pc = "policy"
    /\ \E raw_flag \in BOOLEAN, rich \in BOOLEAN :
        raw' = display_policy(raw_flag, rich, stdout_tty)
    /\ out' = IF stdout_tty
              THEN Append(out, Event("stdout", "echo", <<NL>>))
              ELSE out
    /\ pc' = "prepare"
    /\ UNCHANGED <<files, api_key, template_content, argv, cbDone, model, temperature, template, system,
                   stdout_tty, tokens, prompt_input, stream, prompt, io,
                   calls, pending, collected_messages, markdown_stream,
                   result, exit_code>>

----------------------------------------------------------------------------
(* prepare_and_generate_response *)

\* prepare_and_generate_response, up to the prompt and the debug output
Prepare ==
    /\ pc = "prepare"
    /\ \E emoji \in BOOLEAN, debug \in BOOLEAN,
          loaded \in TemplateContents \cup {NotFound} :
        LET system0 == IF Truthy(system) THEN system ELSE <<>>
            merged == prepare_prompt_from_template(
                          loaded, system0, prompt_input, model)
            system1 == IF Truthy(template) THEN merged.system ELSE system0
            user1 == IF Truthy(template) THEN merged.user ELSE prompt_input
            model1 == IF Truthy(template)
                      THEN resolve_model(model, merged.model)
                      ELSE model
            system2 == IF emoji THEN add_emoji(system1) ELSE system1
            debugged == IF debug
                        THEN <<Event("stderr", "debug", model1)>>
                        ELSE <<>>
        IN  IF Truthy(template) /\ loaded = NotFound
            THEN \* get_template_content: the template does not exist
                 /\ template_content' = loaded
                 /\ io' = Append(io, "template_load")
                 /\ out' = Append(out, Event("stdout", "no_template", template))
                 /\ Exit(1)
                 /\ UNCHANGED <<system, prompt_input, model, prompt>>
            ELSE /\ ~Truthy(template) => loaded = NotFound
                 /\ template_content' =
                        IF Truthy(template) THEN loaded ELSE template_content
                 /\ io' = IF Truthy(template)
                          THEN Append(io, "template_load") ELSE io
                 /\ system' = system2
                 /\ prompt_input' = user1
                 /\ model' = model1
                 /\ prompt' = format_prompt(system2, user1)
                 /\ out' = out \o debugged
                 /\ pc' = IF tokens THEN "tokens" ELSE "generate"
                 /\ UNCHANGED exit_code
    /\ UNCHANGED <<files, api_key, argv, cbDone, temperature, template,
                   stdout_tty, tokens,
                   raw, stream, calls, pending, collected_messages,
                   markdown_stream, result>>

\* display_tokens_count_and_cost(prompt, model)
DisplayTokens ==
    /\ pc = "tokens"
    /\ IF \A encoded \in Encodings :
              display_tokens_count_and_cost(encoded, model).ok
       THEN /\ out' = out \o <<Event("stdout", "tokens", <<>>),
                               Event("stdout", "cost", model)>>
            /\ Exit(0)
       ELSE \* KeyError, uncaught
            /\ out' = Append(out, Event("stderr", "traceback", model))
            /\ Exit(1)
    /\ UNCHANGED <<files, api_key, template_content, argv, cbDone, model, temperature, template, system,
                   stdout_tty, tokens, prompt_input, raw, stream, prompt, io,
                   calls, pending, collected_messages, markdown_stream,
                   result>>


----------------------------------------------------------------------------
(* generate_response and chatgpt_request *)

TypeError == [kind |-> "Exception",
              message |-> <<"T","y","p","e","E","r","r","o","r">>]
AttributeError == [kind |-> "Exception",
                   message |-> <<"A","t","t","r","i","b","u","t","e",
                                 "E","r","r","o","r">>]

\* get_api_key(): the content of the key file, stripped
get_api_key(key_file) == strip(key_file)

\* the test that takes every key that was read for a key
has_api_key_if_read(key) == key # None

\* generate_response: if not openai.api_key
has_api_key(key) == Truthy(key)

\* generate_response: the key, the themes and the live display
GenerateResponse ==
    /\ pc = "generate"
    /\ \E no_stream \in BOOLEAN, key_file \in KeyFileContents :
        LET key == get_api_key(key_file)
        IN  /\ stream' = ~no_stream
            /\ api_key' = key
            /\ IF ~has_api_key(key)
               THEN /\ io' = Append(io, "key_read")
                    /\ out' = Append(out, Event("stdout", "guidance_key", <<>>))
                    /\ Exit(1)
               ELSE /\ io' = io \o <<"key_read", "config">>
                    /\ pc' = "request"
                    /\ UNCHANGED <<out, exit_code>>
    /\ UNCHANGED <<files, template_content, argv, cbDone, model, temperature, template, system,
                   stdout_tty, tokens, prompt_input, raw, prompt, calls,
                   pending, collected_messages, markdown_stream, result>>

\* the call with a second attempt after a failure
issue_call_retrying(issued, call, failed) ==
    IF failed THEN issued \o <<call, call>> ELSE Append(issued, call)

\* chatgpt_request: openai.ChatCompletion.create is called once
issue_call(issued, call, failed) == Append(issued, call)

\* the request that reads every response as a stream of chunks
response_path_always_stream(is_stream) == "stream"

\* chatgpt_request: if stream, the loop over the chunks; else the message
response_path(is_stream) == IF is_stream THEN "stream" ELSE "oneshot"

\* chatgpt_request: the call; it raises, or the response or its stream starts
Request ==
    /\ pc = "request"
    /\ \E e \in Errors \cup {NoError} :
        /\ calls' = issue_call(calls,
                               [model |-> model, temperature |-> temperature,
                                stream |-> stream, messages |-> prompt],
                               e # NoError)
        /\ io' = Append(io, "api_call")
        /\ pending' = e
        /\ pc' = IF e # NoError THEN "except" ELSE response_path(stream)
    /\ UNCHANGED <<files, api_key, template_content, argv, cbDone, model, temperature, template, system,
                   stdout_tty, tokens, prompt_input, raw, stream, prompt, out,
                   collected_messages, markdown_stream, result, exit_code>>

\* the final text with the line terminator always appended
normalize_always(content) == content \o <<NL>>

\* generate_response: the last line always ends with a newline
normalize(content) ==
    IF endswith_newline(content) THEN content ELSE content \o <<NL>>

\* the renderer's update with the new fragment alone
render_fragment_only(accumulator, chunk, is_raw) ==
    IF is_raw THEN Event("stdout", "print", chunk)
    ELSE Event("live", "update", chunk)

\* the renderer that writes the whole accumulator in raw mode too
render_accumulator_always(accumulator, chunk, is_raw) ==
    IF is_raw THEN Event("stdout", "print", accumulator)
    ELSE Event("live", "update", accumulator)

\* the renderer's update with the accumulator as it was before the chunk
render_before_chunk(accumulator, chunk, is_raw) ==
    IF is_raw THEN Event("stdout", "print", chunk)
    ELSE Event("live", "update",
               SubSeq(accumulator, 1, Len(accumulator) - Len(chunk)))

\* update_markdown_stream: what is written for a chunk, the accumulator
\* already holding it
render(accumulator, chunk, is_raw) ==
    IF is_raw THEN Event("stdout", "print", chunk)
    ELSE Event("live", "update", accumulator)

\* the argument update_markdown_stream is called with
chunk_of(chunk_message) == get(chunk_message, "content", <<>>)

\* the loop that asks for the next chunk without calling back
AfterChunkBuffered == "stream"

\* chatgpt_request: a chunk received is handed to the callback before the
\* loop asks for the next one
AfterChunk == "callback"

\* chatgpt_request: the stream delivers a chunk, which is collected
StreamChunk ==
    /\ pc = "stream"
    /\ Len(collected_messages) < MaxFrags
    /\ \E chunk_message \in Deltas :
        collected_messages' = Append(collected_messages, chunk_message)
    /\ pc' = AfterChunk
    /\ UNCHANGED <<files, api_key, template_content, argv, cbDone, model, temperature,
                   template, system, stdout_tty, tokens, prompt_input, raw,
                   stream, prompt, io, out, calls, pending, markdown_stream,
                   result, exit_code>>

\* update_markdown_stream(chunk), called on the chunk just collected
Callback ==
    /\ pc = "callback"
    /\ LET chunk == chunk_of(collected_messages[Len(collected_messages)])
       IN  IF chunk = None
           THEN \* markdown_stream += None
                /\ pending' = TypeError
                /\ pc' = "except"
                /\ UNCHANGED <<markdown_stream, out>>
           ELSE /\ markdown_stream' = markdown_stream \o chunk
                /\ out' = Append(out, render(markdown_stream', chunk, raw))
                /\ pc' = "stream"
                /\ UNCHANGED pending
    /\ UNCHANGED <<files, api_key, template_content, argv, cbDone, model, temperature,
                   template, system, stdout_tty, tokens, prompt_input, raw,
                   stream, prompt, io, calls, collected_messages, result,
                   exit_code>>

\* chatgpt_request: the stream raises instead of delivering a chunk
StreamRaise ==
    /\ pc = "stream"
    /\ \E e \in Errors : pending' = e
    /\ pc' = "except"
    /\ UNCHANGED <<files, api_key, template_content, argv, cbDone, model, temperature, template, system,
                   stdout_tty, tokens, prompt_input, raw, stream, prompt, io,
                   out, calls, collected_messages, markdown_stream, result,
                   exit_code>>

RECURSIVE join_contents(_)
\* "".join([m.get("content", "") for m in collected_messages])
join_contents(messages) ==
    IF messages = <<>> THEN <<>>
    ELSE get(Head(messages), "content", <<>>) \o join_contents(Tail(messages))

\* chatgpt_request: the stream ends; generate_response returns the text
StreamEnd ==
    /\ pc = "stream"
    /\ result' = normalize(join_contents(collected_messages))
    /\ pc' = "returned"
    /\ UNCHANGED <<files, api_key, template_content, argv, cbDone, model, temperature, template, system,
                   stdout_tty, tokens, prompt_input, raw, stream, prompt, io,
                   out, calls, pending, collected_messages, markdown_stream,
                   exit_code>>

\* chatgpt_request without streaming; generate_response prints the text
OneShot ==
    /\ pc = "oneshot"
    /\ \E content \in MessageContents :
        IF content = None
        THEN \* None.endswith
             /\ pending' = AttributeError
             /\ pc' = "except"
             /\ UNCHANGED <<result, out>>
        ELSE /\ result' = normalize(content)
             /\ out' = Append(out, Event("stdout", "print",
                                         normalize(content) \o <<NL>>))
             /\ pc' = "returned"
             /\ UNCHANGED pending
    /\ UNCHANGED <<files, api_key, template_content, argv, cbDone, model, temperature, template, system,
                   stdout_tty, tokens, prompt_input, raw, stream, prompt, io,
                   calls, collected_messages, markdown_stream, exit_code>>

\* the handler that takes every failure for a rate limit
classify_all_rate_limit(error) ==
    <<Event("stderr", "error", error.message),
      Event("stderr", "guidance_rate_limit", <<>>)>>

\* generate_response: what the except clauses write for an error
classify(error) ==
    IF error.kind = "RateLimitError"
    THEN <<Event("stderr", "error", error.message),
           Event("stderr", "guidance_rate_limit", <<>>)>>
    ELSE IF error.kind = "AuthenticationError"
    THEN <<Event("stderr", "guidance_authentication", <<>>),
           Event("stderr", "guidance_key_set", <<>>)>>
    ELSE <<Event("stderr", "error", error.message)>>

\* generate_response: the except clauses
HandleError ==
    /\ pc = "except"
    /\ out' = out \o classify(pending)
    /\ Exit(1)
    /\ UNCHANGED <<files, api_key, template_content, argv, cbDone, model, temperature, template, system,
                   stdout_tty, tokens, prompt_input, raw, stream, prompt, io,
                   calls, pending, collected_messages, markdown_stream,
                   result>>

\* prompt(): the blank line after the response; the command returns
Finish ==
    /\ pc = "returned"
    /\ out' = IF stdout_tty
              THEN Append(out, Event("stdout", "echo", <<NL>>))
              ELSE out
    /\ Exit(0)
    /\ UNCHANGED <<files, api_key, template_content, argv, cbDone, model, temperature, template, system,
                   stdout_tty, tokens, prompt_input, raw, stream, prompt, io,
                   calls, pending, collected_messages, markdown_stream,
                   result>>

Next ==
    \/ CbModel
    \/ CbTemperature
    \/ ReadPrompt
    \/ CheckConflict
    \/ DisplayPolicy
    \/ Prepare
    \/ DisplayTokens
    \/ GenerateResponse
    \/ Request
    \/ StreamChunk
    \/ Callback
    \/ StreamRaise
    \/ StreamEnd
    \/ OneShot
    \/ HandleError
    \/ Finish

Spec == Init /\ [][Next]_vars

----------------------------------------------------------------------------
(* Functions taken alone: the arguments are in argv, the value in result *)

\* the state before the function at position name is applied, the
\* templates directory apart
InitCallFrame(name) ==
    /\ pc = name
    /\ cbDone = {}
    /\ model = DEFAULT_MODEL
    /\ temperature = 10
    /\ template = None
    /\ system = None
    /\ stdout_tty = TRUE
    /\ tokens = FALSE
    /\ prompt_input = <<>>
    /\ raw = FALSE
    /\ stream = TRUE
    /\ prompt = <<>>
    /\ io = <<>>
    /\ out = <<>>
    /\ calls = <<>>
    /\ pending = NoError
    /\ collected_messages = <<>>
    /\ markdown_stream = <<>>
    /\ result = NoResult
    /\ exit_code = Running
    /\ api_key = None

\* the state before the function at position name is applied, for a
\* function that does not touch the templates directory
InitCall(name) ==
    /\ InitCallFrame(name)
    /\ files = NoFiles

\* what a function taken alone leaves as it is
CallFrame ==
    UNCHANGED <<files, api_key, argv, cbDone, model, temperature, template,
                system,
                stdout_tty, tokens, prompt_input, raw, stream, prompt, io,
                out, calls, pending, collected_messages, markdown_stream,
                exit_code>>

\* the fields of a template and the contents of a caller
ComposeFields == {Missing, None, <<>>, <<"T">>, <<"T", " ">>, <<"T", NL>>,
                  <<" ", "T", "\t", " ">>}
ComposeContents == {None, <<>>, <<"s">>, <<" ", "s", " ">>}

InitCompose ==
    /\ argv \in [template : [system : ComposeFields, user : ComposeFields,
                              model : {Missing, gpt_4o}],
                  system : ComposeContents,
                  user : ComposeContents,
                  model : {DEFAULT_MODEL}]
    /\ template_content = argv.template
    /\ InitCall("compose")

\* lmterminal: prepare_prompt_from_template on the loaded template
PrepareFromTemplate ==
    /\ pc = "compose"
    /\ result' = prepare_prompt_from_template(
                     template_content, argv.system, argv.user, argv.model)
    /\ pc' = "composed"
    /\ template_content' = template_after_prepare(template_content)
    /\ CallFrame

\* lmt_cli: handle_template on the loaded template
HandleTemplate ==
    /\ pc = "compose"
    /\ LET r == handle_template(
                    template_content, argv.system, argv.user, argv.model)
       IN  /\ result' = [system |-> r.system, user |-> r.user,
                         model |-> r.model]
           /\ template_content' = r.template
    /\ pc' = "composed_lmt_cli"
    /\ CallFrame

\* lmterminal: the merge a second time, same mapping and same arguments
PrepareAgain ==
    /\ pc = "composed"
    /\ result' = [first |-> result,
                  second |-> prepare_prompt_from_template(
                      template_content, argv.system, argv.user, argv.model)]
    /\ pc' = "recomposed"
    /\ template_content' = template_after_prepare(template_content)
    /\ CallFrame

\* lmt_cli: the merge a second time, on the mapping the first call left
HandleTemplateAgain ==
    /\ pc = "composed_lmt_cli"
    /\ LET r == handle_template(
                    template_content, argv.system, argv.user, argv.model)
       IN  /\ result' = [first |-> result,
                         second |-> [system |-> r.system, user |-> r.user,
                                     model |-> r.model]]
           /\ template_content' = r.template
    /\ pc' = "recomposed_lmt_cli"
    /\ CallFrame

NextCompose ==
    \/ PrepareFromTemplate
    \/ HandleTemplate
    \/ PrepareAgain
    \/ HandleTemplateAgain

SpecCompose == InitCompose /\ [][NextCompose]_vars

\* the system texts given to add_emoji
EmojiAlphabet == {"B", ".", "!", "?", " ", NL}
BeTerse == <<"B", "e", " ", "t", "e", "r", "s", "e">>
EmojiTexts ==
    UNION {[1 .. n -> EmojiAlphabet] : n \in 0 .. MaxText} \cup {BeTerse}

InitEmoji ==
    /\ argv \in [system : EmojiTexts]
    /\ template_content = NotLoaded
    /\ InitCall("emoji")

\* lmterminal and lmt_cli: system = add_emoji(system)
AddEmoji ==
    /\ pc = "emoji"
    /\ result' = add_emoji(argv.system)
    /\ pc' = "added"
    /\ UNCHANGED template_content
    /\ CallFrame

\* lmt (the earlier command): system += EMOJI
AppendEmoji ==
    /\ pc = "emoji"
    /\ result' = append_EMOJI(argv.system)
    /\ pc' = "appended"
    /\ UNCHANGED template_content
    /\ CallFrame

NextEmoji == AddEmoji \/ AppendEmoji

SpecEmoji == InitEmoji /\ [][NextEmoji]_vars

\* the prices estimated_cost is given: those of the table, and zero
PerMillion == {prices[i].price : i \in DOMAIN prices} \cup {0}

InitCost ==
    /\ argv \in [N1 : 0 .. MaxTokens, N2 : 0 .. MaxTokens,
                  price_per_1M_tokens : PerMillion]
    /\ template_content = NotLoaded
    /\ InitCall("cost")

\* estimated_cost for two numbers of tokens at one price; the same
\* arguments give the same value
EstimatedCost ==
    /\ pc = "cost"
    /\ \E cost1 \in estimated_cost(argv.N1, argv.price_per_1M_tokens),
          cost2 \in estimated_cost(argv.N2, argv.price_per_1M_tokens) :
        /\ argv.N1 = argv.N2 => cost1 = cost2
        /\ result' = [N1 |-> cost1, N2 |-> cost2]
    /\ pc' = "costed"
    /\ UNCHANGED template_content
    /\ CallFrame

NextCost == EstimatedCost

SpecCost == InitCost /\ [][NextCost]_vars

InitTokens ==
    /\ argv \in [model : TokenModels, encoded : Encodings]
    /\ template_content = NotLoaded
    /\ InitCall("count")

NumTokensFromString ==
    /\ pc = "count"
    /\ result' = num_tokens_from_string(argv.encoded.full, argv.model)
    /\ pc' = "counted_string"
    /\ UNCHANGED template_content
    /\ CallFrame

NumTokensFromMessages ==
    /\ pc = "count"
    /\ result' = num_tokens_from_messages(argv.encoded, argv.model)
    /\ pc' = "counted_messages"
    /\ UNCHANGED template_content
    /\ CallFrame

EstimatePromptCost ==
    /\ pc = "count"
    /\ result' = estimate_prompt_cost(argv.encoded, argv.model)
    /\ pc' = "estimated"
    /\ UNCHANGED template_content
    /\ CallFrame

DisplayTokensCountAndCost ==
    /\ pc = "count"
    /\ result' = display_tokens_count_and_cost(argv.encoded, argv.model)
    /\ pc' = "displayed"
    /\ UNCHANGED template_content
    /\ CallFrame

NextTokens ==
    \/ NumTokensFromString
    \/ NumTokensFromMessages
    \/ EstimatePromptCost
    \/ DisplayTokensCountAndCost

SpecTokens == InitTokens /\ [][NextTokens]_vars

\* the positional words, the piped or typed contents of standard input
PromptPositionals == {<<>>, << <<"p">> >>, << <<"p">>, <<"q">> >>,
                      << <<" ">> >>, << <<" ", "p">> >>}
PromptStdins == {<<>>, <<"i", NL>>, <<" ", "i", " ">>, <<NL>>}

InitPrompt ==
    /\ argv \in [positional : PromptPositionals, stdin_tty : BOOLEAN,
                  stdin : PromptStdins, raw : BOOLEAN, rich : BOOLEAN,
                  stdout_tty : BOOLEAN]
    /\ template_content = NotLoaded
    /\ InitCall("front")

\* prompt(): the user content, taken alone
ReadPromptInput ==
    /\ pc = "front"
    /\ result' = read_prompt_input(argv.positional, argv.stdin_tty,
                                   argv.stdin)
    /\ pc' = "read"
    /\ UNCHANGED template_content
    /\ CallFrame

\* prompt(): the display policy, taken alone
SetDisplayPolicy ==
    /\ pc = "front"
    /\ result' = [raw |-> display_policy(argv.raw, argv.rich,
                                         argv.stdout_tty)]
    /\ pc' = "policy_set"
    /\ UNCHANGED template_content
    /\ CallFrame

NextPrompt == ReadPromptInput \/ SetDisplayPolicy

SpecPrompt == InitPrompt /\ [][NextPrompt]_vars

\* TEMPLATES_DIR / f"{template}.yaml"
yaml(name) == name \o <<".", "y", "a", "m", "l">>

\* the names given to `templates add`, and the files they stand for
AddNames == {<<"t">>, <<"u">>, yaml(<<"t">>)}
TemplateFiles == {yaml(name) : name \in AddNames}

\* the names of the files that TEMPLATES_DIR.iterdir() gives
iterdir(store) == {file \in DOMAIN store : store[file] # "absent"}

\* add_template(template): the directory and the messages after the
\* command, typed being the answer to the "Template name" prompt and edited
\* telling whether the editor changed the file
add_template(template_arg, typed, store, edited) ==
    LET name == IF Truthy(template_arg) THEN template_arg ELSE typed
        template_file == yaml(name)
        copied == [store EXCEPT ![template_file] = "starter"]
    IN  IF ~Truthy(template_arg) /\ name \in iterdir(store)
        THEN [files |-> store,
              out |-> <<Event("stdout", "already_exists", name)>>]
        ELSE IF edited
        THEN [files |-> [copied EXCEPT ![template_file] = "edited"],
              out |-> <<Event("stdout", "created", name)>>]
        ELSE \* filecmp.cmp is true: template_file.unlink()
             [files |-> [copied EXCEPT ![template_file] = "absent"],
              out |-> <<Event("stdout", "aborting", name)>>]

InitTemplates ==
    /\ argv \in [template : AddNames \cup {None},
                  typed : AddNames \cup {None},
                  files : [TemplateFiles -> {"absent", "custom"}]]
    /\ (argv.template = None) # (argv.typed = None)
    /\ files = argv.files
    /\ template_content = NotLoaded
    /\ InitCallFrame("add")

\* lmt templates add [TEMPLATE]
AddTemplate ==
    /\ pc = "add"
    /\ \E edited \in BOOLEAN :
        LET r == add_template(argv.template, argv.typed, files, edited)
        IN  /\ files' = r.files
            /\ out' = out \o r.out
    /\ pc' = "added_template"
    /\ UNCHANGED <<api_key, template_content, argv, cbDone, model,
                   temperature, template, system, stdout_tty, tokens,
                   prompt_input, raw, stream, prompt, io, calls, pending,
                   collected_messages, markdown_stream, result, exit_code>>

NextTemplates == AddTemplate

SpecTemplates == InitTemplates /\ [][NextTemplates]_vars

----------------------------------------------------------------------------
(* Properties of the streaming request *)

\* the text a fragment carries: the empty text when it carries none
FragmentText(delta) ==
    IF delta.content \in {Missing, None} THEN <<>> ELSE delta.content

RECURSIVE Concatenation(_)
\* the fragment texts of a sequence of deltas, concatenated in arrival order
Concatenation(deltas) ==
    IF deltas = <<>> THEN <<>>
    ELSE Concatenation(SubSeq(deltas, 1, Len(deltas) - 1))
            \o FragmentText(deltas[Len(deltas)])

IsRender(e) == e.what \in {"print", "update"}
IsReport(e) == e.what \in {"error", "guidance_rate_limit",
                           "guidance_authentication", "guidance_key_set"}

\* the updates handed to the display, in order
Renders == SelectSeq(out, IsRender)

RECURSIVE Printed(_)
\* what an append-only terminal shows after the given writes
Printed(events) ==
    IF events = <<>> THEN <<>>
    ELSE Head(events).text \o Printed(Tail(events))

\* what the display shows: in raw mode everything printed, in formatted mode
\* the last update of the live region
Displayed ==
    IF raw THEN Printed(Renders)
    ELSE IF Renders = <<>> THEN <<>> ELSE Renders[Len(Renders)].text

\* the request went through and generate_response returned
Succeeded == pc \in {"returned", "exit"} /\ result # NoResult

\* the request failed: an error of the API or of the handling of a response
Failed == pc \in {"except", "exit"} /\ pending.kind \in ErrorKinds

\* C1: when a streaming request ends without error, the text returned is the
\* concatenation of the fragment texts in arrival order, with one line
\* terminator appended if and only if the concatenation does not end with
\* one; every update handed to the renderer is a fragment (raw mode) or the
\* accumulated fragments (formatted mode), without the appended terminator
C1_FinalTextIsConcatenation ==
    (Succeeded /\ stream) =>
        LET whole == Concatenation(collected_messages)
        IN  /\ endswith_newline(whole) => result = whole
            /\ ~endswith_newline(whole) => result = whole \o <<NL>>
            /\ Len(Renders) = Len(collected_messages)
            /\ \A i \in DOMAIN Renders :
                Renders[i].text =
                    IF raw
                    THEN FragmentText(collected_messages[i])
                    ELSE Concatenation(SubSeq(collected_messages, 1, i))

C1_Witness ==
    /\ Succeeded /\ stream /\ ~raw
    /\ Len(collected_messages) >= 2
    /\ \A i \in DOMAIN collected_messages :
        collected_messages[i].content = <<"a">>
    /\ result = Concatenation(collected_messages) \o <<NL>>

\* the invocation is past the call of chatgpt_request
PastRequest ==
    \/ pc \in {"stream", "callback", "oneshot", "except", "returned"}
    \/ pc = "exit" /\ (Succeeded \/ Failed)

\* C2: an invocation that reaches the request issues exactly one
\* chat-completion call, also when the call or its stream fails; no
\* invocation ever issues more than one
C2_ExactlyOneCall ==
    /\ Len(calls) <= 1
    /\ PastRequest => Len(calls) = 1

C2_Witness ==
    /\ pc = "exit" /\ Failed
    /\ pending.kind = "RateLimitError"
    /\ Len(calls) = 1

\* the invocation entered generate_response
InGenerateResponse == \E i \in DOMAIN io : io[i] = "key_read"

\* what the error handling wrote
Reports == SelectSeq(out, IsReport)

\* C3: a failed request is handled as exactly one of rate limit,
\* authentication failure or other error; each ends the process with a
\* non-zero code and no result; guidance is written for the first two kinds
\* only, the message of an other error is shown as it is; within
\* generate_response only a successful request ends with code 0
C3_ErrorClassification ==
    /\ (pc = "exit" /\ Failed) =>
        /\ exit_code # 0
        /\ result = NoResult
        /\ (\E i \in DOMAIN Reports : Reports[i].what = "guidance_rate_limit")
            <=> pending.kind = "RateLimitError"
        /\ (\E i \in DOMAIN Reports :
                Reports[i].what = "guidance_authentication")
            <=> pending.kind = "AuthenticationError"
        /\ pending.kind = "Exception" =>
            Reports = <<Event("stderr", "error", pending.message)>>
    /\ (pc = "exit" /\ InGenerateResponse /\ exit_code = 0) =>
        /\ Succeeded
        /\ pending = NoError
        /\ Len(calls) = 1

C3_Witness ==
    /\ pc = "exit" /\ Failed
    /\ pending.kind = "AuthenticationError"
    /\ exit_code = 1

\* C4: when a streaming request fails after k >= 1 fragments, the display
\* shows the text of all k fragments, every update of the display comes
\* before the error report in the output, and the report is there
C4_PartialStreamKept ==
    (pc = "exit" /\ Failed /\ stream /\ Len(collected_messages) >= 1) =>
        /\ Displayed = Concatenation(collected_messages)
        /\ Len(Renders) =
            Cardinality({i \in DOMAIN collected_messages :
                            collected_messages[i].content # None})
        /\ Reports # <<>>
        /\ \A i, j \in DOMAIN out :
            (IsRender(out[i]) /\ IsReport(out[j])) => i < j

C4_Witness ==
    /\ pc = "exit" /\ Failed /\ stream /\ ~raw
    /\ pending.kind = "RateLimitError"
    /\ Len(collected_messages) >= 2
    /\ Displayed = <<"a", "a">>

----------------------------------------------------------------------------
(* Properties of the options and of the prompt assembly *)

\* the --model value as the callback handed it on
FlagModel == validate_model_name(argv.model).value

\* the template declares a model: the field is there and is a name
DeclaresModel(content) == content.model \notin {Missing, None, <<>>}

\* prepare_and_generate_response has merged a template
Merged == /\ pc \in {"tokens", "generate"}
          /\ Truthy(template)
          /\ template_content \in TemplateContents

\* C5: with a template, a --model value other than the default is the
\* resolved model whatever the template declares; with the default --model
\* value the resolved model is the one the template declares, and the
\* default when the template declares none
C5_ModelResolution ==
    Merged =>
        /\ FlagModel # DEFAULT_MODEL => model = FlagModel
        /\ (FlagModel = DEFAULT_MODEL /\ DeclaresModel(template_content))
            => model = template_content.model
        /\ (FlagModel = DEFAULT_MODEL /\ ~DeclaresModel(template_content))
            => model = DEFAULT_MODEL

C5_Witness ==
    /\ Merged
    /\ FlagModel = DEFAULT_MODEL
    /\ template_content.model = gpt_4o
    /\ model = gpt_4o

\* C6: every chat-completion call issued carries a temperature of [0, 2] and
\* a canonical identifier of the model catalog
C6_CallsCarryValidParameters ==
    \A i \in DOMAIN calls :
        /\ 0 <= calls[i].temperature /\ calls[i].temperature <= 20
        /\ calls[i].model \in CanonicalModels

RejectedFor(option) ==
    /\ pc = "exit"
    /\ pending = UsageError("BadParameter", option)

\* C7: validate_temperature returns every value of [0, 2] unchanged and
\* raises BadParameter for every value below 0 or above 2
C7_TemperatureValidation ==
    /\ "temperature" \in cbDone =>
        /\ 0 <= argv.temperature /\ argv.temperature <= 20
        /\ temperature = argv.temperature
    /\ RejectedFor("temperature") =>
        (argv.temperature < 0 \/ argv.temperature > 20)

C7_Witness ==
    /\ RejectedFor("temperature")
    /\ argv.temperature = 21

\* the entries of the catalog that list the name, as key or as alias
EntriesOf(name) ==
    {i \in DOMAIN VALID_MODELS :
        \/ VALID_MODELS[i].model = name
        \/ name \in Range(VALID_MODELS[i].aliases)}

\* C8: validate_model_name returns a canonical identifier as it is, the
\* canonical identifier of an alias, always a key of VALID_MODELS, and raises
\* BadParameter for a value that, lower-cased, is neither
C8_ModelNameValidation ==
    /\ "model" \in cbDone =>
        /\ model \in CanonicalModels
        /\ \E i \in EntriesOf(lower(argv.model)) : VALID_MODELS[i].model = model
        /\ argv.model \in CanonicalModels => model = argv.model
        /\ \A i \in DOMAIN VALID_MODELS :
            argv.model \in Range(VALID_MODELS[i].aliases)
                => model = VALID_MODELS[i].model
    /\ RejectedFor("model") => EntriesOf(lower(argv.model)) = {}

C8_Witness ==
    /\ "model" \in cbDone
    /\ argv.model = <<"4","O","M">>
    /\ model = DEFAULT_MODEL

\* C9: validate_model_name accepts every input of the alias table of the
\* test and returns the canonical identifier paired with it
C9_TestTableAccepted ==
    \A i \in DOMAIN TestAliasTable :
        argv.model = TestAliasTable[i][1] =>
            /\ ~RejectedFor("model")
            /\ "model" \in cbDone => model = TestAliasTable[i][2]

\* C10: a template name together with a system override is rejected before
\* any read of standard input, template load, key read or network call
C10_ConflictBeforeIO ==
    (pc = "exit" /\ pending = UsageError("BadOptionUsage", "template"))
        => io = <<>>

----------------------------------------------------------------------------
(* Properties of the functions taken alone *)

\* a field of the template, or a content of the caller, that is missing or
\* null counts as the empty text
TextOf(x) == IF x \in {Missing, None} THEN <<>> ELSE x

\* composed is the field right-trimmed, then the content as it is: it ends
\* with the content, what comes before is the start of the field and ends
\* with no white space, and the field has nothing but white space after it
IsTrimmedThenContent(composed, field, content) ==
    LET n == Len(composed) - Len(content)
    IN  /\ n >= 0
        /\ n <= Len(field)
        /\ SubSeq(composed, n + 1, Len(composed)) = content
        /\ SubSeq(composed, 1, n) = SubSeq(field, 1, n)
        /\ n > 0 => field[n] \notin Whitespace
        /\ \A i \in (n + 1) .. Len(field) : field[i] \in Whitespace

\* C11: with a template, the composed system and user values are the
\* template's field right-trimmed (a missing or null field is empty)
\* followed by the caller's content as it is, with no separator; with no
\* content (None or empty) the value is the right-trimmed field alone; in
\* lmterminal and in lmt_cli
C11_TrimmedFieldThenContent ==
    pc \in {"composed", "composed_lmt_cli"} =>
        /\ IsTrimmedThenContent(result.system, TextOf(argv.template.system),
                                TextOf(argv.system))
        /\ IsTrimmedThenContent(result.user, TextOf(argv.template.user),
                                TextOf(argv.user))

C11_Witness ==
    /\ pc = "composed"
    /\ argv.template.system = <<" ", "T", "\t", " ">>
    /\ argv.system = <<" ", "s", " ">>
    /\ result.system = <<" ", "T", " ", "s", " ">>
    /\ argv.template.user = None
    /\ argv.user = None
    /\ result.user = <<>>

\* the text is empty or white space only
IsBlank(text) == \A i \in DOMAIN text : text[i] \in Whitespace

SentenceEnd == {".", "!", "?"}

\* C20: for a system text that ends with ".", "!" or "?" add_emoji gives
\* the text, one space and the instruction, with no period added
C20_NoPeriodAfterPunctuation ==
    (pc = "added" /\ argv.system # <<>>
        /\ argv.system[Len(argv.system)] \in SentenceEnd) =>
        result = argv.system \o <<" ">> \o emoji_message

\* cost, in millionths, is num_tokens * price / 1_000_000 rounded to six
\* decimals: no millionth is nearer to it (price in hundredths, so both
\* sides are in hundred-millionths)
IsRounded(cost, num_tokens, price) ==
    LET exact == num_tokens * price
    IN  /\ 100 * cost - exact <= 50
        /\ exact - 100 * cost <= 50

\* C16: estimated_cost(N, price) is N * price / 1_000_000 rounded to six
\* decimals, and at one price it does not decrease when N grows
C16_CostRoundedAndMonotone ==
    pc = "costed" =>
        /\ IsRounded(result.N1, argv.N1, argv.price_per_1M_tokens)
        /\ IsRounded(result.N2, argv.N2, argv.price_per_1M_tokens)
        /\ argv.N1 <= argv.N2 => result.N1 <= result.N2

C16_Witness ==
    /\ pc = "costed"
    /\ argv.price_per_1M_tokens = 15
    /\ argv.N1 = 10 /\ result.N1 = 2
    /\ argv.N2 = 25 /\ result.N2 = 4

----------------------------------------------------------------------------
(* Properties of the cost report and of the display *)

\* the events of one kind written so far
Written(what) == SelectSeq(out, LAMBDA e : e.what = what)

\* C12: with --tokens, once the prompt is prepared the token count and the
\* cost estimate are printed, the process ends with exit code 0 and no
\* chat-completion call is issued, whatever the other options are
C12_TokensReportAndExit ==
    (tokens /\ prompt # <<>>) =>
        /\ calls = <<>>
        /\ pc \notin {"generate", "request", "stream", "callback", "oneshot"}
        /\ pc = "exit" =>
               /\ exit_code = 0
               /\ Len(Written("tokens")) = 1
               /\ Len(Written("cost")) = 1

\* the request was issued with streaming
Streaming == stream /\ calls # <<>>

\* C13: in raw mode each fragment's text is written once, in arrival order
\* and by appending: after n fragments are handled the n writes are the n
\* fragment texts, one each, and the terminal holds the concatenation of the
\* first n fragment texts
C13_RawAppendOnly ==
    (Streaming /\ raw) =>
        LET renders == Renders
            n == Len(renders)
            printed == Printed(renders)
        IN  /\ n <= Len(collected_messages)
            /\ \A i \in 1 .. n :
                renders[i] = Event("stdout", "print",
                                   FragmentText(collected_messages[i]))
            /\ printed = Concatenation(SubSeq(collected_messages, 1, n))
            /\ pc # "callback" =>
                   printed = Concatenation(collected_messages)

C13_Witness ==
    /\ Streaming /\ raw
    /\ pc = "stream"
    /\ Len(collected_messages) = 3
    /\ collected_messages[1].content = <<"a">>
    /\ collected_messages[2].content = Missing
    /\ collected_messages[3].content = <<NL>>
    /\ Printed(Renders) = <<"a", NL>>

\* C14: in formatted mode the update after the i-th fragment is the
\* rendering of all the fragments received so far, and when the stream ends
\* the last update is the rendering of the concatenation of all fragments
C14_FormattedRendersAccumulator ==
    (Streaming /\ ~raw) =>
        LET renders == Renders
        IN  /\ \A i \in DOMAIN renders :
                /\ i <= Len(collected_messages)
                /\ renders[i] =
                       Event("live", "update",
                             Concatenation(SubSeq(collected_messages, 1, i)))
            /\ (Succeeded /\ collected_messages # <<>>) =>
                   /\ renders # <<>>
                   /\ renders[Len(renders)].text =
                          Concatenation(collected_messages)

C14_Witness ==
    /\ Streaming /\ ~raw
    /\ pc = "returned"
    /\ Len(collected_messages) = 3
    /\ collected_messages[1].content = <<"a">>
    /\ collected_messages[2].content = <<NL>>
    /\ collected_messages[3].content = <<"a">>
    /\ Renders[2].text = <<"a", NL>>
    /\ Renders[3].text = <<"a", NL, "a">>

\* C17: without streaming the callback is never called and no update is
\* displayed; the text of the single call is written once
C17_OneShotPrintsOnce ==
    (~stream /\ calls # <<>>) =>
        /\ Len(calls) = 1
        /\ pc \notin {"stream", "callback"}
        /\ collected_messages = <<>>
        /\ markdown_stream = <<>>
        /\ Written("update") = <<>>
        /\ Len(Renders) <= 1
        /\ Succeeded =>
               Renders = <<Event("stdout", "print", result \o <<NL>>)>>

C17_Witness ==
    /\ ~stream
    /\ pc = "returned"
    /\ Len(calls) = 1
    /\ result = <<"a", NL>>
    /\ Renders = <<Event("stdout", "print", <<"a", NL, NL>>)>>

\* C18: while streaming, when the next fragment is asked for the callback
\* has returned for every fragment received, and during the callback of a
\* fragment the earlier ones are displayed and no later one is received; so
\* with two fragments received the first is already displayed
C18_CallbackBeforeNextFragment ==
    Streaming =>
        /\ pc = "stream" => Len(Renders) = Len(collected_messages)
        /\ pc = "callback" => Len(Renders) = Len(collected_messages) - 1
        /\ (pc \in {"stream", "callback"} /\ Len(collected_messages) >= 2)
               => Len(Renders) >= 1

C18_Witness ==
    /\ Streaming
    /\ pc = "callback"
    /\ Len(collected_messages) = 2
    /\ Len(Renders) = 1
    /\ Renders[1].text = FragmentText(collected_messages[1])

\* C19: for every fragment received, a fragment with no content or a null
\* content included, the value handed to the callback is a text (the empty
\* one when the fragment carries none) and the stream goes on without an
\* error of the handling
C19_EveryFragmentIsText ==
    Streaming =>
        /\ \A i \in DOMAIN collected_messages :
               chunk_of(collected_messages[i]) =
                   FragmentText(collected_messages[i])
        /\ pending # TypeError

----------------------------------------------------------------------------
(* Properties of the key, of the token report and of the tables *)

\* C30: when the key read from the key file is empty (an empty file or
\* white space only), generate_response prints the guidance to set the
\* key, the process ends with a non-zero code and no chat-completion call
\* is issued
C30_EmptyKeyStopsBeforeCall ==
    api_key = <<>> =>
        /\ pc = "exit"
        /\ exit_code = 1
        /\ Len(Written("guidance_key")) = 1
        /\ calls = <<>>

C30_Witness ==
    /\ api_key = <<>>
    /\ pc = "exit"
    /\ exit_code = 1
    /\ out # <<>>
    /\ out[Len(out)] = Event("stdout", "guidance_key", <<>>)

\* C21: for a model with no encoding the token functions do not raise:
\* the count that is displayed and the count used for the cost are taken
\* with the default encoding, with a warning
C21_TokenCountFallsBack ==
    argv.model \notin TiktokenModels =>
        /\ pc = "counted_string" => (result.ok /\ result.warning)
        /\ pc = "counted_messages" => (result.ok /\ result.warning)

\* C22: for a model with no entry in the price table estimate_prompt_cost
\* raises: it returns no cost, takes no default price, and the report
\* prints no estimate
C22_UnpricedModelIsAnError ==
    argv.model \notin PricedModels =>
        /\ pc = "estimated" =>
               (~result.ok /\ result.error = "KeyError"
                    /\ result.key = argv.model)
        /\ pc = "displayed" => ~result.ok

C22_Witness ==
    /\ pc = "estimated"
    /\ argv.model = gpt_4_0314
    /\ ~result.ok
    /\ ~result.warning

\* C28: every canonical identifier of VALID_MODELS has a price, so with a
\* model that validate_model_name returns the estimate and the report do
\* not fail for a missing price
C28_CatalogIsPriced ==
    /\ CanonicalModels \subseteq PricedModels
    /\ (argv.model \in CanonicalModels /\ pc \in {"estimated", "displayed"})
           => result.ok

C28_Witness ==
    /\ pc = "displayed"
    /\ argv.model \in CanonicalModels
    /\ argv.model = DEFAULT_MODEL \o <<"-","2","0","2","4","-","0","7","-","1","8">>
    /\ result.ok
    /\ result.number_of_tokens = argv.encoded.full

----------------------------------------------------------------------------
(* Properties of the template merge *)

\* C23: prepare_prompt_from_template leaves the loaded mapping as it was
\* loaded: the same keys with the same values, no key added and no null
\* replaced by an empty text
C23_TemplateNotMutated ==
    pc \in {"composed", "recomposed"} => template_content = argv.template

C23_Witness ==
    /\ pc = "composed"
    /\ argv.template.system = None
    /\ argv.template.user = Missing
    /\ argv.system = <<"s">>
    /\ result.system = <<"s">>
    /\ template_content.system = None
    /\ template_content.user = Missing

\* C24: the merge applied twice to the same loaded mapping with the same
\* contents gives the same system text, user text and model both times, in
\* lmterminal and in lmt_cli, whose first call writes defaults into the
\* mapping
C24_MergeIsDeterministic ==
    pc \in {"recomposed", "recomposed_lmt_cli"} =>
        /\ result.second.system = result.first.system
        /\ result.second.user = result.first.user
        /\ result.second.model = result.first.model

C24_Witness ==
    /\ pc = "recomposed_lmt_cli"
    /\ argv.template.system = None
    /\ argv.template.user = <<"T", NL>>
    /\ argv.user = <<" ", "s", " ">>
    /\ template_content.system = <<>>
    /\ result.first.user = <<"T", " ", "s", " ">>
    /\ result.second = result.first

----------------------------------------------------------------------------
(* Properties of the catalog and of the front of the command *)

\* C25: in VALID_MODELS no alias is listed under two canonical
\* identifiers and no alias is the canonical identifier of another model,
\* so a name that is accepted is listed by one entry only and the result
\* does not depend on the order in which the table is read
C25_AliasesAreUnique ==
    /\ \A i, j \in DOMAIN VALID_MODELS :
          i # j =>
            /\ VALID_MODELS[i].model # VALID_MODELS[j].model
            /\ Range(VALID_MODELS[i].aliases)
                   \cap Range(VALID_MODELS[j].aliases) = {}
            /\ VALID_MODELS[j].model \notin Range(VALID_MODELS[i].aliases)
    /\ "model" \in cbDone =>
          /\ Cardinality(EntriesOf(lower(argv.model))) = 1
          /\ \A i \in EntriesOf(lower(argv.model)) :
                model = VALID_MODELS[i].model

C25_Witness ==
    /\ "model" \in cbDone
    /\ argv.model = <<"4">>
    /\ model = <<"g","p","t","-","4">>
    /\ EntriesOf(argv.model) = {3}

\* a text without the white space at its two ends
Trimmed(text) ==
    LET inked == {i \in DOMAIN text : text[i] \notin Whitespace}
    IN  IF inked = {} THEN <<>>
        ELSE SubSeq(text,
                    CHOOSE i \in inked : \A j \in inked : i <= j,
                    CHOOSE i \in inked : \A j \in inked : i >= j)

\* the positional words joined by one space, trimmed
PositionalText == Trimmed(join(<<" ">>, argv.positional))

\* C26: with standard input piped and a positional text, the user content
\* is the trimmed piped content, the line "___" between two line ends, then
\* the positional text; piped with no positional text, it is the trimmed
\* piped content alone; standard input is read at most once
C26_PipedThenSeparatorThenPositional ==
    pc = "read" =>
        /\ (~argv.stdin_tty /\ PositionalText # <<>>) =>
               result.prompt_input =
                   Trimmed(argv.stdin) \o <<NL, "_", "_", "_", NL>>
                       \o PositionalText
        /\ (~argv.stdin_tty /\ PositionalText = <<>>) =>
               result.prompt_input = Trimmed(argv.stdin)
        /\ result.reads <= 1

C26_Witness ==
    /\ pc = "read"
    /\ ~argv.stdin_tty
    /\ argv.positional = << <<"p">>, <<"q">> >>
    /\ argv.stdin = <<" ", "i", " ">>
    /\ result.prompt_input = <<"i", NL, "_", "_", "_", NL, "p", " ", "q">>
    /\ result.reads = 1

\* C27: the display policy is raw when --raw is set or standard output is
\* not a terminal, and formatted whenever --rich is set: raw = (raw flag or
\* not a tty) and not rich, for the eight combinations
C27_DisplayPolicy ==
    pc = "policy_set" =>
        result.raw = ((argv.raw \/ ~argv.stdout_tty) /\ ~argv.rich)

C27_Witness ==
    /\ pc = "policy_set"
    /\ argv.raw /\ argv.rich /\ ~argv.stdout_tty
    /\ result.raw = FALSE

\* the name `templates add` was given, as argument or at the prompt
AddedName == IF argv.template # None THEN argv.template ELSE argv.typed

\* C29: `templates add NAME` with a template NAME that exists reports that
\* it exists and leaves its file as it was, whether NAME is an argument or
\* typed at the prompt
C29_AddKeepsExistingTemplate ==
    (pc = "added_template" /\ argv.files[yaml(AddedName)] # "absent") =>
        /\ files[yaml(AddedName)] = argv.files[yaml(AddedName)]
        /\ out = <<Event("stdout", "already_exists", AddedName)>>

====
